---- MODULE Spec2Model ----
(***************************************************************************)
(* BarSeries (src/series/bar_series.rs): the aggregation of grouped data   *)
(* into a category -> stacked-items mapping, the fluent configuration, and *)
(* the two Iterator implementations (Vertical, Horizontal) that turn the   *)
(* mapping into rectangles, one per pull.                                  *)
(*                                                                         *)
(* Option values: None is <<>>, Some(v) is <<v>>.                          *)
(* A series is the record `self` with the fields of the struct; the type   *)
(* parameter Tag is the variable `tag`.                                    *)
(***************************************************************************)
EXTENDS Integers, Sequences, FiniteSets, TLC

\* ---------------------------------------------------------------- bounds
\* longest input sequence of (category, item-list) entries handed to
\* `new` / `data`
MaxEntries == 2
\* the same, in the specification of the builder calls
MaxBuilderEntries == 1

\* ------------------------------------------------------------ value sets
\* category values (BR::ValueType), a discrete integer range
Categories == {1, 2}
\* the item lists of the input entries: (DataId, A) pairs; the first and the
\* last item share their identity
ItemLists == {<<>>, <<<<"s1", 1>>>>, <<<<"s2", 2>>, <<"s1", 4>>>>}
\* styles handed to `style` / `new`
StyleVals == {<<"RED">>}
\* amounts handed to `baseline`
BaselineVals == {3}
\* margins handed to `margin` / `new`
MarginVals == {0, 2}
\* closures handed to `style_func`, by name
StyleFuncs == {<<"f">>}
\* closures handed to `baseline_func`: |x| k * x, by their k
BaselineFuncs == {10}

None == <<>>
Some(v) == <<v>>

RECURSIVE SeqsUpTo(_, _)
SeqsUpTo(S, n) ==
  IF n = 0 THEN {<<>>}
  ELSE LET r == SeqsUpTo(S, n - 1)
       IN  r \cup {Append(s, e) : s \in {t \in r : Len(t) = n - 1}, e \in S}

Entries == {<<x, y>> : x \in Categories, y \in ItemLists}
Inputs == SeqsUpTo(Entries, MaxEntries)
BuilderInputs == SeqsUpTo(Entries, MaxBuilderEntries)

\* the enumeration orders a hash map with key set S can have
Orders(S) == {o \in [1..Cardinality(S) -> S] : \A i, j \in 1..Cardinality(S) : o[i] = o[j] => i = j}

\* ------------------------------------------------- external collaborators
\* DiscreteRanged::next_value / previous_value on an integer range
next_value(x) == x + 1
previous_value(x) == x - 1

\* A::default() and A's += for the integer amount type
A_default == 0
add_assign(a, b) == a + b

\* Rectangle::new and Rectangle::set_margin(top, bottom, left, right)
Rectangle_new(p0, p1, st) == [points |-> <<p0, p1>>, style |-> st, margin |-> <<0, 0, 0, 0>>]
set_margin(rect, t, b, l, r) == [rect EXCEPT !.margin = <<t, b, l, r>>]

\* GREEN.filled() and TRANSPARENT.mix(0.0).filled()
GREEN_filled == <<"GREEN">>
TRANSPARENT_filled == <<"TRANSPARENT">>

\* ------------------------------------------------------ boxed closures
\* A ShapeStyle is a tuple: <<colour>>, or <<f, x, data_id, y_coord>> for
\* the result of the caller's closure f, which depends on all its arguments.
\* the closure built by `style` / `new`: |_, _, _| style.clone()
ConstStyle(st) == [kind |-> "const", val |-> st]
\* Box::new(style_func)
BoxedStyle(f) == [kind |-> "func", val |-> f]
\* (self.style)(&x, &data_id, &y_coord)
call_style(f, x, data_id, y_coord) ==
  IF f.kind = "const" THEN f.val ELSE f.val \o <<x, data_id, y_coord>>

\* the closure built by `baseline`: |_| baseline.clone()
ConstBaseline(b) == [kind |-> "const", val |-> b]
\* Box::new(func)
BoxedBaseline(k) == [kind |-> "func", val |-> k]
\* (self.baseline)(x)
call_baseline(f, x) == IF f.kind = "const" THEN f.val ELSE f.val * x

\* ------------------------------------------------------------ aggregation
\* buffer.entry(x).or_insert(Vec::new())
or_insert(buffer, x) == IF x \in DOMAIN buffer THEN buffer ELSE buffer @@ (x :> <<>>)

\* the loop of `data` with insert(x, y) in place of entry(x)...extend(y)
RECURSIVE data_buffer_insert(_, _)
data_buffer_insert(buffer, it) ==
  IF it = <<>> THEN buffer
  ELSE LET x == Head(it)[1]
           y == Head(it)[2]
           b1 == or_insert(buffer, x)
       IN  data_buffer_insert([b1 EXCEPT ![x] = y], Tail(it))

\* `data`: for (x, y) in iter { buffer.entry(x).or_insert(Vec::new()).extend(y) }
RECURSIVE data_buffer(_, _)
data_buffer(buffer, it) ==
  IF it = <<>> THEN buffer
  ELSE LET x == Head(it)[1]
           y == Head(it)[2]
           b1 == or_insert(buffer, x)
       IN  data_buffer([b1 EXCEPT ![x] = @ \o y], Tail(it))

\* `new`: for (x, y) in iter { ...or_insert(Vec::new()).append(&mut y.collect()) }
RECURSIVE new_buffer(_, _)
new_buffer(buffer, it) ==
  IF it = <<>> THEN buffer
  ELSE LET x == Head(it)[1]
           collected == Head(it)[2]
           b1 == or_insert(buffer, x)
       IN  new_buffer([b1 EXCEPT ![x] = @ \o collected], Tail(it))

\* buffer.into_iter(): the entries of the map in the order `ord` the hash
\* map happens to enumerate its keys
into_iter(buffer, ord) == [i \in 1..Len(ord) |-> <<ord[i], buffer[ord[i]]>>]

\* ------------------------------------------------- constructors, builders
empty ==
  [style |-> ConstStyle(GREEN_filled), margin |-> 5, iter |-> <<>>,
   subiter |-> None, subiter_info |-> None, baseline |-> ConstBaseline(A_default)]

\* `new` that keeps the default margin instead of its argument
new_default_margin(it, m, st, ord) ==
  [style |-> ConstStyle(st), margin |-> 5, iter |-> into_iter(new_buffer(<<>>, it), ord),
   subiter |-> None, subiter_info |-> None, baseline |-> ConstBaseline(A_default)]

new(it, m, st, ord) ==
  [style |-> ConstStyle(st), margin |-> m, iter |-> into_iter(new_buffer(<<>>, it), ord),
   subiter |-> None, subiter_info |-> None, baseline |-> ConstBaseline(A_default)]

style(s, st) == [s EXCEPT !.style = ConstStyle(st)]
style_func(s, f) == [s EXCEPT !.style = BoxedStyle(f)]
baseline(s, b) == [s EXCEPT !.baseline = ConstBaseline(b)]
baseline_func(s, f) == [s EXCEPT !.baseline = BoxedBaseline(f)]
margin(s, value) == [s EXCEPT !.margin = value]
\* `data` chaining the new entries after the ones still in self.iter
data_chained(s, it, ord) == [s EXCEPT !.iter = s.iter \o into_iter(data_buffer(<<>>, it), ord)]
data(s, it, ord) == [s EXCEPT !.iter = into_iter(data_buffer(<<>>, it), ord)]

\* --------------------------------------------------------------- pulling
\* The result of one pull: the series afterwards, the item returned
\* (None or Some(rect)), the argument tuples the style and baseline closures
\* were called with, and how many categories `self.iter.next()` handed out.
PullResult(s, item, sc, bc, adv) ==
  [self |-> s, item |-> item, style_calls |-> sc, baseline_calls |-> bc, advanced |-> adv]

\* a stack segment with the margins of a horizontal bar
vertical_stack_segment_swapped(s) ==
  LET x == s.subiter_info[1][1]
      base == s.subiter_info[1][2]
      data_id == Head(s.subiter[1])[1]
      nx == next_value(x)
      st == call_style(s.style, x, data_id, Head(s.subiter[1])[2])
      y_coord == add_assign(Head(s.subiter[1])[2], base)
      rect == set_margin(Rectangle_new(<<x, y_coord>>, <<nx, base>>, st), s.margin, s.margin, 0, 0)
  IN  PullResult([s EXCEPT !.subiter = Some(Tail(s.subiter[1])),
                           !.subiter_info = Some(<<x, y_coord>>)],
                 Some(rect), <<<<x, data_id, Head(s.subiter[1])[2]>>>>, <<>>, 0)

\* a stack segment that styles the accumulated amount
vertical_stack_segment_styles_top(s) ==
  LET x == s.subiter_info[1][1]
      base == s.subiter_info[1][2]
      data_id == Head(s.subiter[1])[1]
      nx == next_value(x)
      y_coord == add_assign(Head(s.subiter[1])[2], base)
      st == call_style(s.style, x, data_id, y_coord)
      rect == set_margin(Rectangle_new(<<x, y_coord>>, <<nx, base>>, st), 0, 0, s.margin, s.margin)
  IN  PullResult([s EXCEPT !.subiter = Some(Tail(s.subiter[1])),
                           !.subiter_info = Some(<<x, y_coord>>)],
                 Some(rect), <<<<x, data_id, y_coord>>>>, <<>>, 0)

\* a stack segment that asks the baseline closure for its base
vertical_stack_segment_rebased(s) ==
  LET x == s.subiter_info[1][1]
      base == call_baseline(s.baseline, x)
      data_id == Head(s.subiter[1])[1]
      nx == next_value(x)
      st == call_style(s.style, x, data_id, Head(s.subiter[1])[2])
      y_coord == add_assign(Head(s.subiter[1])[2], base)
      rect == set_margin(Rectangle_new(<<x, y_coord>>, <<nx, base>>, st), 0, 0, s.margin, s.margin)
  IN  PullResult([s EXCEPT !.subiter = Some(Tail(s.subiter[1])),
                           !.subiter_info = Some(<<x, y_coord>>)],
                 Some(rect), <<<<x, data_id, Head(s.subiter[1])[2]>>>>, <<x>>, 0)

\* a stack segment that leaves the running top as it was
vertical_stack_segment_stale_top(s) ==
  LET x == s.subiter_info[1][1]
      base == s.subiter_info[1][2]
      data_id == Head(s.subiter[1])[1]
      nx == next_value(x)
      st == call_style(s.style, x, data_id, Head(s.subiter[1])[2])
      y_coord == add_assign(Head(s.subiter[1])[2], base)
      rect == set_margin(Rectangle_new(<<x, y_coord>>, <<nx, base>>, st), 0, 0, s.margin, s.margin)
  IN  PullResult([s EXCEPT !.subiter = Some(Tail(s.subiter[1])),
                           !.subiter_info = Some(<<x, base>>)],
                 Some(rect), <<<<x, data_id, Head(s.subiter[1])[2]>>>>, <<>>, 0)

\* a stack segment whose amount is not added to the running top
vertical_stack_segment_flat(s) ==
  LET x == s.subiter_info[1][1]
      base == s.subiter_info[1][2]
      data_id == Head(s.subiter[1])[1]
      nx == next_value(x)
      st == call_style(s.style, x, data_id, Head(s.subiter[1])[2])
      y_coord == Head(s.subiter[1])[2]
      rect == set_margin(Rectangle_new(<<x, y_coord>>, <<nx, base>>, st), 0, 0, s.margin, s.margin)
  IN  PullResult([s EXCEPT !.subiter = Some(Tail(s.subiter[1])),
                           !.subiter_info = Some(<<x, y_coord>>)],
                 Some(rect), <<<<x, data_id, Head(s.subiter[1])[2]>>>>, <<>>, 0)

\* Iterator for BarSeries<Vertical>::next, lines 183-201: a segment of the
\* pending stack
vertical_stack_segment(s) ==
  LET x == s.subiter_info[1][1]
      base == s.subiter_info[1][2]
      data_id == Head(s.subiter[1])[1]
      nx == next_value(x)
      st == call_style(s.style, x, data_id, Head(s.subiter[1])[2])
      y_coord == add_assign(Head(s.subiter[1])[2], base)
      rect == set_margin(Rectangle_new(<<x, y_coord>>, <<nx, base>>, st), 0, 0, s.margin, s.margin)
  IN  PullResult([s EXCEPT !.subiter = Some(Tail(s.subiter[1])),
                           !.subiter_info = Some(<<x, y_coord>>)],
                 Some(rect), <<<<x, data_id, Head(s.subiter[1])[2]>>>>, <<>>, 0)

\* the first segment, keeping the whole list as the rest of the stack
vertical_first_segment_whole(s, x, y) ==
  LET nx == next_value(x)
      y_len == Len(y)
      base == call_baseline(s.baseline, previous_value(nx))
      data_id == Head(y)[1]
      y_coord == Head(y)[2]
      st == call_style(s.style, x, data_id, y_coord)
      rect == set_margin(Rectangle_new(<<x, y_coord>>, <<nx, base>>, st), 0, 0, s.margin, s.margin)
      s1 == IF y_len > 1
            THEN [s EXCEPT !.subiter = Some(y), !.subiter_info = Some(<<x, y_coord>>)]
            ELSE s
  IN  PullResult(s1, Some(rect), <<<<x, data_id, y_coord>>>>, <<previous_value(nx)>>, 1)

\* the first segment, keeping the rest of the stack only when the list has
\* more than two items
vertical_first_segment_short(s, x, y) ==
  LET nx == next_value(x)
      y_len == Len(y)
      y_iter == Tail(y)
      base == call_baseline(s.baseline, previous_value(nx))
      data_id == Head(y)[1]
      y_coord == Head(y)[2]
      st == call_style(s.style, x, data_id, y_coord)
      rect == set_margin(Rectangle_new(<<x, y_coord>>, <<nx, base>>, st), 0, 0, s.margin, s.margin)
      s1 == IF y_len > 2
            THEN [s EXCEPT !.subiter = Some(y_iter), !.subiter_info = Some(<<x, y_coord>>)]
            ELSE s
  IN  PullResult(s1, Some(rect), <<<<x, data_id, y_coord>>>>, <<previous_value(nx)>>, 1)

\* the first segment, noting the pending stack but not keeping its items
vertical_first_segment_info_only(s, x, y) ==
  LET nx == next_value(x)
      y_len == Len(y)
      base == call_baseline(s.baseline, previous_value(nx))
      data_id == Head(y)[1]
      y_coord == Head(y)[2]
      st == call_style(s.style, x, data_id, y_coord)
      rect == set_margin(Rectangle_new(<<x, y_coord>>, <<nx, base>>, st), 0, 0, s.margin, s.margin)
      s1 == IF y_len > 1
            THEN [s EXCEPT !.subiter_info = Some(<<x, y_coord>>)]
            ELSE s
  IN  PullResult(s1, Some(rect), <<<<x, data_id, y_coord>>>>, <<previous_value(nx)>>, 1)

\* lines 213-226: the first segment of a newly fetched, non-empty category
vertical_first_segment(s, x, y) ==
  LET nx == next_value(x)
      y_len == Len(y)
      y_iter == Tail(y)
      base == call_baseline(s.baseline, previous_value(nx))
      data_id == Head(y)[1]
      y_coord == Head(y)[2]
      st == call_style(s.style, x, data_id, y_coord)
      rect == set_margin(Rectangle_new(<<x, y_coord>>, <<nx, base>>, st), 0, 0, s.margin, s.margin)
      s1 == IF y_len > 1
            THEN [s EXCEPT !.subiter = Some(y_iter), !.subiter_info = Some(<<x, y_coord>>)]
            ELSE s
  IN  PullResult(s1, Some(rect), <<<<x, data_id, y_coord>>>>, <<previous_value(nx)>>, 1)

\* the placeholder given the margins of a bar
vertical_placeholder_margins(s, x) ==
  LET nx == next_value(x)
      empty_rect == Rectangle_new(<<x, A_default>>, <<previous_value(nx), A_default>>,
                                  TRANSPARENT_filled)
  IN  PullResult(s, Some(set_margin(empty_rect, 0, 0, s.margin, s.margin)), <<>>, <<>>, 1)

\* lines 227-236: the placeholder of a newly fetched, empty category
vertical_placeholder(s, x) ==
  LET nx == next_value(x)
      empty_rect == Rectangle_new(<<x, A_default>>, <<previous_value(nx), A_default>>,
                                  TRANSPARENT_filled)
  IN  PullResult(s, Some(set_margin(empty_rect, 0, 0, 0, 0)), <<>>, <<>>, 1)

\* next() that goes on to the category source without clearing subiter_info
vertical_next_keeps_info(s) ==
  IF s.subiter /= None /\ s.subiter_info /= None /\ s.subiter[1] /= <<>>
  THEN vertical_stack_segment(s)
  ELSE IF s.iter /= <<>>
       THEN LET x == Head(s.iter)[1]
                y == Head(s.iter)[2]
                s1 == [s EXCEPT !.iter = Tail(s.iter)]
            IN  IF Len(y) > 0 THEN vertical_first_segment(s1, x, y)
                ELSE vertical_placeholder(s1, x)
       ELSE PullResult(s, None, <<>>, <<>>, 0)

\* next() that ends the sequence when it finds the pending stack exhausted,
\* instead of going on to the category source
vertical_next_stops(s) ==
  IF s.subiter /= None /\ s.subiter_info /= None
  THEN IF s.subiter[1] /= <<>> THEN vertical_stack_segment(s)
       ELSE PullResult([s EXCEPT !.subiter_info = None], None, <<>>, <<>>, 0)
  ELSE LET s0 == [s EXCEPT !.subiter_info = None]
       IN  IF s0.iter /= <<>>
           THEN LET x == Head(s0.iter)[1]
                    y == Head(s0.iter)[2]
                    s1 == [s0 EXCEPT !.iter = Tail(s0.iter)]
                IN  IF Len(y) > 0 THEN vertical_first_segment(s1, x, y)
                    ELSE vertical_placeholder(s1, x)
           ELSE PullResult(s0, None, <<>>, <<>>, 0)

\* Iterator for BarSeries<Vertical>::next
vertical_next(s) ==
  IF s.subiter /= None /\ s.subiter_info /= None /\ s.subiter[1] /= <<>>
  THEN vertical_stack_segment(s)
  ELSE LET s0 == [s EXCEPT !.subiter_info = None]
       IN  IF s0.iter /= <<>>
           THEN LET x == Head(s0.iter)[1]
                    y == Head(s0.iter)[2]
                    s1 == [s0 EXCEPT !.iter = Tail(s0.iter)]
                IN  IF Len(y) > 0 THEN vertical_first_segment(s1, x, y)
                    ELSE vertical_placeholder(s1, x)
           ELSE PullResult(s0, None, <<>>, <<>>, 0)

\* the rectangle built from the last item of the stack
horizontal_rect_last(s, y, x) ==
  LET ny == next_value(y)
      base == call_baseline(s.baseline, previous_value(ny))
      data_id == x[Len(x)][1]
      x_coord == x[Len(x)][2]
      st == call_style(s.style, y, data_id, x_coord)
      rect == set_margin(Rectangle_new(<<x_coord, y>>, <<base, ny>>, st), s.margin, s.margin, 0, 0)
  IN  PullResult(s, Some(rect), <<<<y, data_id, x_coord>>>>, <<previous_value(ny)>>, 1)

\* lines 263-271: the rectangle of a non-empty category
horizontal_rect(s, y, x) ==
  LET ny == next_value(y)
      base == call_baseline(s.baseline, previous_value(ny))
      data_id == x[1][1]
      x_coord == x[1][2]
      st == call_style(s.style, y, data_id, x_coord)
      rect == set_margin(Rectangle_new(<<x_coord, y>>, <<base, ny>>, st), s.margin, s.margin, 0, 0)
  IN  PullResult(s, Some(rect), <<<<y, data_id, x_coord>>>>, <<previous_value(ny)>>, 1)

\* Iterator for BarSeries<Horizontal>::next
horizontal_next(s) ==
  IF s.iter /= <<>>
  THEN LET y == Head(s.iter)[1]
           x == Head(s.iter)[2]
           s1 == [s EXCEPT !.iter = Tail(s.iter)]
       IN  IF x /= <<>> THEN horizontal_rect(s1, y, x)
           ELSE PullResult(s1, None, <<>>, <<>>, 1)
  ELSE PullResult(s, None, <<>>, <<>>, 0)

\* ------------------------------------------------------------------ state
VARIABLES
  self,      \* the BarSeries value
  tag,       \* its type parameter Tag: "Vertical" or "Horizontal"
  ctor,      \* the constructor it came from
  input,     \* the entries last handed to `new` / `data`
  buffer,    \* the HashMap `new` / `data` built from them
  cfg,       \* per setting, the call that last set it
  pulled,    \* next() has been called
  last,      \* the PullResult of the latest next() (without its self)
  ended,     \* an earlier next() returned None
  out,       \* the rectangles returned so far
  styleLog,  \* the argument tuples of all style closure calls so far
  baseLog,   \* the arguments of all baseline closure calls so far
  replacedAt \* Some(<<Len(out), Len(styleLog)>>) as of a data() call made after a next()

vars == <<self, tag, ctor, input, buffer, cfg, pulled, last, ended, out, styleLog, baseLog,
          replacedAt>>

NoPull == [item |-> None, style_calls |-> <<>>, baseline_calls |-> <<>>, advanced |-> 0]

Call(name, arg) == [call |-> name, arg |-> arg]

\* the setting a builder method (or constructor argument) sets
Setting(name) ==
  CASE name \in {"style", "style_func"} -> "style"
    [] name \in {"baseline", "baseline_func"} -> "baseline"
    [] name = "margin" -> "margin"
    [] name = "data" -> "data"

\* series.<call.call>(call.arg); "keep" is no call
Apply(s, call) ==
  CASE call.call = "style" -> style(s, call.arg)
    [] call.call = "style_func" -> style_func(s, call.arg)
    [] call.call = "baseline" -> baseline(s, call.arg)
    [] call.call = "baseline_func" -> baseline_func(s, call.arg)
    [] call.call = "margin" -> margin(s, call.arg)
    [] call.call = "data" -> data(s, call.arg[1], call.arg[2])
    [] call.call = "keep" -> s

Noted(cf, call) ==
  IF call.call = "keep" THEN cf ELSE [cf EXCEPT ![Setting(call.call)] = call]

StyleCalls ==
  {Call("keep", <<>>)} \cup {Call("style_func", f) : f \in StyleFuncs}
    \cup {Call("style", st) : st \in StyleVals}
BaselineCalls ==
  {Call("keep", 0)} \cup {Call("baseline_func", k) : k \in BaselineFuncs}
    \cup {Call("baseline", b) : b \in BaselineVals}
MarginCalls == {Call("keep", 0)} \cup {Call("margin", v) : v \in MarginVals}
\* the entries handed to `data`, each with an enumeration order of its map
DataArgs(ins) == UNION {{<<it, ord>> : ord \in Orders(DOMAIN data_buffer(<<>>, it))} : it \in ins}
DataCalls(ins) == {Call("keep", <<>>)} \cup {Call("data", a) : a \in DataArgs(ins)}

\* a series right after its constructor: the value, its Tag, the constructor,
\* the entries and the map it was built from, and what set each setting
Constructed(s, t, c, inp, buf, cf) ==
  [self |-> s, tag |-> t, ctor |-> c, input |-> inp, buffer |-> buf, cfg |-> cf]

EmptyCfg(c) ==
  [style |-> Call(c, GREEN_filled), baseline |-> Call(c, A_default),
   margin |-> Call(c, 5), data |-> Call(c, <<<<>>, <<>>>>)]

\* the entries handed to `new`, each with an enumeration order of its map
NewArgs(ins) == UNION {{<<it, ord>> : ord \in Orders(DOMAIN new_buffer(<<>>, it))} : it \in ins}

\* BarSeries::new(iter, margin, style): Tag = Vertical
ByNew(ins) ==
  {Constructed(new(a[1], m, st, a[2]), "Vertical", "new", a[1], new_buffer(<<>>, a[1]),
               [style |-> Call("new", st), baseline |-> Call("new", A_default),
                margin |-> Call("new", m), data |-> Call("new", a)]) :
     a \in NewArgs(ins), m \in MarginVals, st \in StyleVals}

\* BarSeries::vertical(&chart): Self::empty() with Tag = Vertical
ByVertical == Constructed(empty, "Vertical", "vertical", <<>>, <<>>, EmptyCfg("vertical"))

\* BarSeries::horizontal(&chart): Self::empty() of the impl for
\* BarSeries<'a, BR, A, Horizontal>, whose fourth type argument is DataId;
\* Tag keeps its default, Vertical (lines 23, 157)
ByHorizontal == Constructed(empty, "Vertical", "horizontal", <<>>, <<>>, EmptyCfg("horizontal"))

\* Self::empty() with Tag = Horizontal, which only code of the module can
\* call (empty is private)
ByEmptyHorizontal == Constructed(empty, "Horizontal", "empty", <<>>, <<>>, EmptyCfg("empty"))

Constructors(ins) == ByNew(ins) \cup {ByVertical, ByHorizontal, ByEmptyHorizontal}

Observers == <<pulled, last, ended, out, styleLog, baseLog, replacedAt>>

NothingPulled ==
  /\ pulled = FALSE /\ last = NoPull /\ ended = FALSE
  /\ out = <<>> /\ styleLog = <<>> /\ baseLog = <<>>
  /\ replacedAt = None

\* a series as its constructor returns it
BuilderInit ==
  \E c \in Constructors(BuilderInputs) :
    /\ self = c.self /\ tag = c.tag /\ ctor = c.ctor
    /\ input = c.input /\ buffer = c.buffer /\ cfg = c.cfg
    /\ NothingPulled

\* a series as a chain of builder calls on a constructor's result leaves it,
\* ready to be pulled; the data come from `new` or from one `data` call
Configured(ins) ==
  \E c \in Constructors(ins), sc \in StyleCalls, bc \in BaselineCalls, mc \in MarginCalls :
   \E dc \in IF c.ctor = "new" THEN {Call("keep", <<>>)} ELSE DataCalls(ins) :
    /\ self = Apply(Apply(Apply(Apply(c.self, sc), bc), mc), dc)
    /\ tag = c.tag /\ ctor = c.ctor
    /\ input = IF dc.call = "data" THEN dc.arg[1] ELSE c.input
    /\ buffer = IF dc.call = "data" THEN data_buffer(<<>>, dc.arg[1]) ELSE c.buffer
    /\ cfg = Noted(Noted(Noted(Noted(c.cfg, sc), bc), mc), dc)
    /\ NothingPulled

Init == Configured(Inputs)

\* ---------------------------------------------------------------- actions
\* series = series.style(st)
Style ==
  /\ ~pulled
  /\ \E st \in StyleVals :
       /\ self' = style(self, st)
       /\ cfg' = Noted(cfg, Call("style", st))
  /\ UNCHANGED <<tag, ctor, input, buffer, Observers>>

\* series = series.style_func(f)
StyleFunc ==
  /\ ~pulled
  /\ \E f \in StyleFuncs :
       /\ self' = style_func(self, f)
       /\ cfg' = Noted(cfg, Call("style_func", f))
  /\ UNCHANGED <<tag, ctor, input, buffer, Observers>>

\* series = series.baseline(b)
Baseline ==
  /\ ~pulled
  /\ \E b \in BaselineVals :
       /\ self' = baseline(self, b)
       /\ cfg' = Noted(cfg, Call("baseline", b))
  /\ UNCHANGED <<tag, ctor, input, buffer, Observers>>

\* series = series.baseline_func(f)
BaselineFunc ==
  /\ ~pulled
  /\ \E k \in BaselineFuncs :
       /\ self' = baseline_func(self, k)
       /\ cfg' = Noted(cfg, Call("baseline_func", k))
  /\ UNCHANGED <<tag, ctor, input, buffer, Observers>>

\* series = series.margin(value)
Margin ==
  /\ ~pulled
  /\ \E value \in MarginVals :
       /\ self' = margin(self, value)
       /\ cfg' = Noted(cfg, Call("margin", value))
  /\ UNCHANGED <<tag, ctor, input, buffer, Observers>>

\* series = series.data(it)
Data ==
  /\ ~pulled
  /\ \E it \in BuilderInputs :
       \E ord \in Orders(DOMAIN data_buffer(<<>>, it)) :
         /\ self' = data(self, it, ord)
         /\ input' = it
         /\ buffer' = data_buffer(<<>>, it)
         /\ cfg' = Noted(cfg, Call("data", <<it, ord>>))
  /\ UNCHANGED <<tag, ctor, Observers>>

\* what a pull leaves behind
Pulled(r) ==
  /\ self' = r.self
  /\ pulled' = TRUE
  /\ last' = [item |-> r.item, style_calls |-> r.style_calls,
              baseline_calls |-> r.baseline_calls, advanced |-> r.advanced]
  /\ ended' = (ended \/ (pulled /\ last.item = None))
  /\ out' = out \o r.item
  /\ styleLog' = styleLog \o r.style_calls
  /\ baseLog' = baseLog \o r.baseline_calls
  /\ UNCHANGED <<tag, ctor, input, buffer, cfg, replacedAt>>

\* series.next() on a BarSeries<.., Vertical>
VerticalNext == tag = "Vertical" /\ Pulled(vertical_next(self))

\* series.next() on a BarSeries<.., Horizontal>
HorizontalNext == tag = "Horizontal" /\ Pulled(horizontal_next(self))

\* pulling a configured series
Next == VerticalNext \/ HorizontalNext

Spec == Init /\ [][Next]_vars

\* builder calls in any order, then pulling
BuilderNext ==
  \/ Style \/ StyleFunc \/ Baseline \/ BaselineFunc \/ Margin \/ Data
  \/ VerticalNext \/ HorizontalNext

BuilderSpec == BuilderInit /\ [][BuilderNext]_vars

\* series = series.data(it) on a series that has been pulled from: only
\* `iter` is assigned, `subiter` and `subiter_info` stay as the pulls left them
DataAfterPull ==
  /\ pulled /\ replacedAt = None
  /\ \E it \in BuilderInputs :
       \E ord \in Orders(DOMAIN data_buffer(<<>>, it)) :
         /\ self' = data(self, it, ord)
         /\ input' = it
         /\ buffer' = data_buffer(<<>>, it)
         /\ cfg' = Noted(cfg, Call("data", <<it, ord>>))
  /\ replacedAt' = Some(<<Len(out), Len(styleLog)>>)
  /\ UNCHANGED <<tag, ctor, pulled, last, ended, out, styleLog, baseLog>>

\* pulling, with one data() call at any point after the first pull
ReplaceNext == VerticalNext \/ HorizontalNext \/ DataAfterPull

ReplaceSpec == Configured(BuilderInputs) /\ [][ReplaceNext]_vars

\* ----------------------------------------------------------- observations
\* of a vertical rectangle: its category and its two value-axis edges
VCat(r) == r.points[1][1]
VHigh(r) == r.points[1][2]
VLow(r) == r.points[2][2]
\* of a horizontal rectangle: its category
HCat(r) == r.points[1][2]

\* the vertical rectangles of category x, in the order they were returned
RectsOf(x) == LET Is(r) == VCat(r) = x IN SelectSeq(out, Is)
\* the horizontal rectangles of category y
HRectsOf(y) == LET Is(r) == HCat(r) = y IN SelectSeq(out, Is)

\* a1 + ... + ak of the amounts of an item list
RECURSIVE PrefixSum(_, _)
PrefixSum(items, k) == IF k = 0 THEN 0 ELSE PrefixSum(items, k - 1) + items[k][2]

\* the latest pull returned None
SignalledEnd == pulled /\ last.item = None

\* how many items of the category emitted last are still to be emitted
UnemittedOfCurrent ==
  IF out = <<>> THEN 0
  ELSE LET x == VCat(out[Len(out)])
           n == Len(buffer[x]) - Len(RectsOf(x))
       IN  IF n > 0 THEN n ELSE 0

\* ----------------------------------------------------------------- claims

\* C1: vertical mode: for a category with amounts a1..an and baseline
\* b = baseline_fn(category), the k-th rectangle of the category has low edge
\* b + a1 + ... + a(k-1) and high edge b + a1 + ... + ak, for any b.
C1_StackAccumulation ==
  tag = "Vertical" =>
    \A x \in DOMAIN buffer :
      buffer[x] /= <<>> =>
        LET b == call_baseline(self.baseline, x)
            rs == RectsOf(x)
        IN  \A k \in 1..Len(rs) :
              /\ VLow(rs[k]) = b + PrefixSum(buffer[x], k - 1)
              /\ VHigh(rs[k]) = b + PrefixSum(buffer[x], k)

\* C2: in both orientations, once a pull has returned None every later pull
\* returns None.
C2_Exhaustion == ended => last.item = None

\* C3: vertical mode: a pull returns None if and only if, when it starts, the
\* category source is empty and no item of the current category is still
\* un-emitted; every other pull returns exactly one rectangle.
C3_Termination ==
  [][VerticalNext =>
       /\ (last'.item = None) <=> (self.iter = <<>> /\ UnemittedOfCurrent = 0)
       /\ (last'.item = None) => out' = out
       /\ (last'.item /= None) => out' = Append(out, last'.item[1])]_vars

C3_Witness ==
  /\ tag = "Vertical" /\ SignalledEnd /\ Len(out) >= 3
  /\ \E x \in DOMAIN buffer : buffer[x] = <<>>

\* C4: horizontal mode: a consumer that pulls until the first None has
\* received exactly one rectangle for every category with a non-empty stack.
C4_EmptyCategoriesDoNotEnd ==
  (tag = "Horizontal" /\ SignalledEnd /\ ~ended) =>
    \A y \in DOMAIN buffer : buffer[y] /= <<>> => Len(HRectsOf(y)) = 1

\* C5: vertical mode: a category with an empty list yields exactly one
\* rectangle: transparent, both amounts zero, category corners x and
\* prev(next(x)), all margins 0; neither closure is called for it and no
\* stacking state is kept.
C5_Placeholder ==
  tag = "Vertical" =>
    /\ \A i \in DOMAIN out :
         buffer[VCat(out[i])] = <<>> =>
           out[i] = [points |-> <<<<VCat(out[i]), 0>>,
                                  <<previous_value(next_value(VCat(out[i]))), 0>>>>,
                     style |-> TRANSPARENT_filled,
                     margin |-> <<0, 0, 0, 0>>]
    /\ (last.item /= None /\ buffer[VCat(last.item[1])] = <<>>) =>
         /\ last.style_calls = <<>> /\ last.baseline_calls = <<>>
         /\ self.subiter_info = None
    /\ \A x \in DOMAIN buffer : buffer[x] = <<>> => Len(RectsOf(x)) <= 1
    /\ SignalledEnd => \A x \in DOMAIN buffer : buffer[x] = <<>> => Len(RectsOf(x)) = 1

C5_Witness ==
  /\ tag = "Vertical" /\ Len(out) >= 2 /\ self.margin /= 0
  /\ buffer[VCat(out[1])] = <<>> /\ buffer[VCat(out[2])] /= <<>>
  /\ self.style.kind = "func" /\ self.baseline.kind = "func"

\* the rectangles of categories with a non-empty stack, and the placeholders
IsBar(r) == buffer[VCat(r)] /= <<>>

\* C6 as stated: every vertical rectangle has margins (0, 0, m, m) and every
\* horizontal rectangle has margins (m, m, 0, 0), m the configured margin.
C6_MarginsOfEveryRectangle ==
  \A i \in DOMAIN out :
    /\ tag = "Vertical" => out[i].margin = <<0, 0, self.margin, self.margin>>
    /\ tag = "Horizontal" => out[i].margin = <<self.margin, self.margin, 0, 0>>

\* C6, amended: every vertical rectangle of a category with a non-empty stack
\* has margins (0, 0, m, m), the placeholder of an empty category has
\* margins (0, 0, 0, 0), and every horizontal rectangle has (m, m, 0, 0).
C6_MarginDirection ==
  \A i \in DOMAIN out :
    /\ (tag = "Vertical" /\ IsBar(out[i])) =>
         out[i].margin = <<0, 0, self.margin, self.margin>>
    /\ (tag = "Vertical" /\ ~IsBar(out[i])) => out[i].margin = <<0, 0, 0, 0>>
    /\ tag = "Horizontal" => out[i].margin = <<self.margin, self.margin, 0, 0>>

C6_Witness ==
  /\ tag = "Vertical" /\ self.margin = 2 /\ Len(out) >= 3
  /\ \E i, j \in DOMAIN out : i < j /\ IsBar(out[i]) /\ VCat(out[i]) = VCat(out[j])
  /\ \E i \in DOMAIN out : ~IsBar(out[i])

\* the concatenation of a sequence of sequences
RECURSIVE Concat(_)
Concat(ss) == IF ss = <<>> THEN <<>> ELSE Head(ss) \o Concat(Tail(ss))

\* the item lists of the entries of inp that carry category x, concatenated
\* in encounter order
GroupOf(inp, x) ==
  LET Is(e) == e[1] = x
      es == SelectSeq(inp, Is)
  IN  Concat([i \in 1..Len(es) |-> es[i][2]])

\* C7: `new` and `data` build a map with exactly one group per distinct
\* category of the input, each group the concatenation in encounter order of
\* the item lists of the entries with that category; the series enumerates
\* exactly these groups.
C7_AggregationMerge ==
  /\ DOMAIN buffer = {input[i][1] : i \in DOMAIN input}
  /\ \A x \in DOMAIN buffer : buffer[x] = GroupOf(input, x)
  /\ ~pulled =>
       /\ Len(self.iter) = Cardinality(DOMAIN buffer)
       /\ {self.iter[i] : i \in DOMAIN self.iter} = {<<x, buffer[x]>> : x \in DOMAIN buffer}

C7_Witness ==
  /\ ctor /= "new" /\ ~pulled /\ Len(input) = 2
  /\ input[1][1] = input[2][1] /\ input[1][2] /= <<>> /\ input[2][2] /= <<>>
  /\ input[1][2] /= input[2][2]
  /\ self.iter = <<<<input[1][1], input[1][2] \o input[2][2]>>>>

\* C8: horizontal mode: every rectangle is built from the first item of its
\* category's stack only (amount and baseline_fn(y) on the value axis, y and
\* next(y) on the category axis), a category yields at most one rectangle,
\* one with a stack longer than 1 exactly one once the source has handed it
\* out, and no stacking state is kept.
C8_HorizontalTruncation ==
  tag = "Horizontal" =>
    /\ self.subiter = None /\ self.subiter_info = None
    /\ \A i \in DOMAIN out :
         LET y == HCat(out[i])
         IN  /\ y \in DOMAIN buffer /\ buffer[y] /= <<>>
             /\ out[i].points = <<<<buffer[y][1][2], y>>,
                                  <<call_baseline(self.baseline, y), next_value(y)>>>>
             /\ out[i].style = call_style(self.style, y, buffer[y][1][1], buffer[y][1][2])
    /\ \A y \in DOMAIN buffer : Len(HRectsOf(y)) <= 1
    /\ self.iter = <<>> =>
         \A y \in DOMAIN buffer : Len(buffer[y]) > 1 => Len(HRectsOf(y)) = 1

C8_Witness ==
  /\ tag = "Horizontal" /\ self.iter = <<>> /\ Len(out) = 2
  /\ \E y \in DOMAIN buffer : Len(buffer[y]) > 1 /\ Len(HRectsOf(y)) = 1
  /\ self.baseline.kind = "func" /\ self.style.kind = "func"

\* max(1, length of the stack) summed over the categories of a map
RECURSIVE RectangleCount(_, _)
RectangleCount(buf, S) ==
  IF S = {} THEN 0
  ELSE LET x == CHOOSE c \in S : TRUE
       IN  (IF Len(buf[x]) > 1 THEN Len(buf[x]) ELSE 1) + RectangleCount(buf, S \ {x})

\* a consumer that keeps pulling
LiveSpec == Spec /\ WF_vars(VerticalNext) /\ WF_vars(HorizontalNext)

\* C9: vertical mode: repeated pulling eventually returns None, exactly
\* sum over the categories of max(1, stack length) rectangles have been
\* returned by then, and on an empty map the very first pull returns None.
C9_Finite ==
  /\ [](tag = "Vertical" /\ SignalledEnd => Len(out) = RectangleCount(buffer, DOMAIN buffer))
  /\ [](tag = "Vertical" /\ pulled /\ DOMAIN buffer = {} => last.item = None /\ out = <<>>)
  /\ <>(tag = "Vertical" => SignalledEnd)

C9_Witness ==
  /\ tag = "Vertical" /\ SignalledEnd /\ Cardinality(DOMAIN buffer) = 2 /\ Len(out) = 3
  /\ \E x \in DOMAIN buffer : buffer[x] = <<>>

\* the series the last call of each setting describes, whatever the order of
\* the calls
Canonical(cf) ==
  [style |-> IF cf.style.call = "style_func" THEN [kind |-> "func", val |-> cf.style.arg]
             ELSE [kind |-> "const", val |-> cf.style.arg],
   margin |-> cf.margin.arg,
   iter |-> [i \in 1..Len(cf.data.arg[2]) |->
               <<cf.data.arg[2][i], GroupOf(cf.data.arg[1], cf.data.arg[2][i])>>],
   subiter |-> None,
   subiter_info |-> None,
   baseline |-> IF cf.baseline.call = "baseline_func" THEN [kind |-> "func", val |-> cf.baseline.arg]
                ELSE [kind |-> "const", val |-> cf.baseline.arg]]

\* all the rectangles series s returns when it is pulled to its end
RECURSIVE FullOut(_, _)
FullOut(s, t) ==
  IF t = "Vertical"
  THEN LET r == vertical_next(s)
       IN  IF r.item = None THEN <<>> ELSE r.item \o FullOut(r.self, t)
  ELSE IF s.iter = <<>> THEN <<>>
       ELSE LET r == horizontal_next(s) IN r.item \o FullOut(r.self, t)

IsPrefix(a, b) == Len(a) <= Len(b) /\ a = SubSeq(b, 1, Len(a))

\* C10: before the first pull the series is determined by the last call of
\* each setting (constructor arguments included), in whatever order the
\* calls were made: each call sets only its own field, `data` replaces the
\* data source, the stacking state stays empty, and the rectangles pulled
\* afterwards are those of that series.
C10_FluentOrderIndependent ==
  /\ ~pulled => self = Canonical(cfg)
  /\ IsPrefix(out, FullOut(Canonical(cfg), tag))

C10_Witness ==
  /\ ctor = "new" /\ Len(out) = 2
  /\ cfg.style.call = "style_func" /\ cfg.baseline.call = "baseline"
  /\ cfg.margin.call = "margin" /\ cfg.data.call = "data"

\* the example of the specification: categories A = 1 and B = 2,
\* {A: [("s1", 2), ("s2", 3)], B: []}
ExampleInput == <<<<1, <<<<"s1", 2>>, <<"s2", 3>>>>>>, <<2, <<>>>>>>

\* pulling a series configured with the example data
ExampleSpec == Configured({ExampleInput}) /\ [][Next]_vars

\* a rectangle without its style: corners and margins
Shape(r) == [points |-> r.points, margin |-> r.margin]
ExampleA1 == [points |-> <<<<1, 2>>, <<2, 0>>>>, margin |-> <<0, 0, 5, 5>>]
ExampleA2 == [points |-> <<<<1, 5>>, <<2, 2>>>>, margin |-> <<0, 0, 5, 5>>]
ExampleB == [points |-> <<<<2, 0>>, <<2, 0>>>>, margin |-> <<0, 0, 0, 0>>]
Shapes == [i \in DOMAIN out |-> Shape(out[i])]

\* the example's setting: vertical mode, baseline 0, margin 5, the example
\* data
IsExample ==
  /\ tag = "Vertical" /\ self.baseline = [kind |-> "const", val |-> 0] /\ self.margin = 5
  /\ input = ExampleInput

\* C11 as stated: the pulls yield rect(A, [0, 2)), rect(A, [2, 5)), the
\* placeholder of B, in this order, then None.
C11_ExampleInThisOrder ==
  IsExample =>
    /\ IsPrefix(Shapes, <<ExampleA1, ExampleA2, ExampleB>>)
    /\ SignalledEnd => Len(out) = 3

\* C11, amended: the two rectangles of A come in this order one after the
\* other and the transparent placeholder of B comes before or after them, as
\* the map enumerates A and B; then None.
C11_Example ==
  IsExample =>
    /\ \/ IsPrefix(Shapes, <<ExampleA1, ExampleA2, ExampleB>>)
       \/ IsPrefix(Shapes, <<ExampleB, ExampleA1, ExampleA2>>)
    /\ \A i \in DOMAIN out : Shape(out[i]) = ExampleB => out[i].style = TRANSPARENT_filled
    /\ SignalledEnd => Len(out) = 3

C11_Witness == IsExample /\ SignalledEnd /\ Shapes = <<ExampleA1, ExampleA2, ExampleB>>

\* C12: a series from `vertical` / `horizontal` (Self::empty()) has margin 5
\* and a baseline closure returning zero for every category, as long as no
\* builder call overrides them; a series from `new` has the margin it was
\* given and the same zero baseline; every constructor leaves no pending
\* stack.
C12_Defaults ==
  /\ cfg.margin.call \in {"vertical", "horizontal", "empty"} => self.margin = 5
  /\ cfg.margin.call = "new" => self.margin = cfg.margin.arg
  /\ cfg.baseline.call = ctor => \A x \in Categories : call_baseline(self.baseline, x) = 0
  /\ ~pulled => self.subiter = None /\ self.subiter_info = None

C12_Witness ==
  /\ ctor = "new" /\ ~pulled /\ self.iter /= <<>>
  /\ cfg.margin.call = "new" /\ self.margin = 2 /\ cfg.baseline.call = "new"
  /\ cfg.style.call = "style_func"

\* the (identity, amount) items the style closure was called with for
\* category x, in call order
StyledItemsOf(x) ==
  LET Is(c) == c[1] = x
      cs == SelectSeq(styleLog, Is)
  IN  [i \in 1..Len(cs) |-> <<cs[i][2], cs[i][3]>>]

\* C13: vertical mode: the rectangles of one category are emitted one after
\* the other in a single run, one per item and in the order of the
\* category's list, and within a run the low edge of a segment is the high
\* edge of the segment before it.
C13_ContiguousRuns ==
  tag = "Vertical" =>
    /\ \A i, j, k \in DOMAIN out :
         (i < j /\ j < k /\ VCat(out[i]) = VCat(out[k])) => VCat(out[j]) = VCat(out[i])
    /\ \A x \in DOMAIN buffer :
         buffer[x] /= <<>> =>
           /\ IsPrefix(StyledItemsOf(x), buffer[x])
           /\ Len(RectsOf(x)) = Len(StyledItemsOf(x))
           /\ \A k \in 1..Len(RectsOf(x)) :
                RectsOf(x)[k].style = call_style(self.style, x, buffer[x][k][1], buffer[x][k][2])
           /\ SignalledEnd => Len(RectsOf(x)) = Len(buffer[x])
    /\ \A i \in DOMAIN out :
         (i > 1 /\ VCat(out[i]) = VCat(out[i - 1])) => VLow(out[i]) = VHigh(out[i - 1])

C13_Witness ==
  /\ tag = "Vertical" /\ SignalledEnd /\ Len(out) = 4 /\ self.style.kind = "func"
  /\ \A x \in DOMAIN buffer : buffer[x] /= <<>>
  /\ Cardinality(DOMAIN buffer) = 2

\* the latest vertical pull fetched a category with a non-empty list and
\* returned its first segment
StartedCategory ==
  /\ tag = "Vertical" /\ last.advanced = 1 /\ last.item /= None
  /\ buffer[VCat(last.item[1])] /= <<>>

\* C14: vertical mode: after the pull that emits the first segment of a newly
\* fetched category x, the state is Stacking(x, top, rest) with top the high
\* edge of that rectangle and rest the list without its first item when the
\* list has more than one item, and Idle (no pending-stack info) when it has
\* exactly one.
C14_StateAfterFirstSegment ==
  StartedCategory =>
    LET x == VCat(last.item[1])
    IN  /\ Len(buffer[x]) > 1 =>
             /\ self.subiter_info = <<<<x, VHigh(last.item[1])>>>>
             /\ self.subiter = <<Tail(buffer[x])>>
        /\ Len(buffer[x]) = 1 => self.subiter_info = <<>>

C14_Witness ==
  /\ StartedCategory /\ Len(out) >= 3
  /\ Len(buffer[VCat(last.item[1])]) > 1
  /\ self.baseline.kind = "func"

\* Stacking with no remaining item
StackExhausted == self.subiter_info /= None /\ self.subiter = <<<<>>>>

\* C15: vertical mode: a pull that starts in Stacking with no remaining item
\* clears the state and advances the category source in that same pull: it
\* returns the one rectangle the next category starts with, built from that
\* category's baseline and first amount (or the placeholder) and not from
\* the old running top, or None if no category is left; and no pull at all
\* returns None while the source still holds a category.
C15_ExhaustionInsideNextPull ==
  [][VerticalNext =>
       /\ self.iter /= <<>> => last'.item /= None
       /\ (StackExhausted /\ self.iter = <<>>) =>
            last'.item = None /\ self'.subiter_info = None
       /\ (StackExhausted /\ self.iter /= <<>>) =>
            LET x == Head(self.iter)[1]
                y == Head(self.iter)[2]
                r == last'.item[1]
            IN  /\ last'.advanced = 1 /\ self'.iter = Tail(self.iter)
                /\ out' = Append(out, r)
                /\ VCat(r) = x
                /\ y /= <<>> => VLow(r) = call_baseline(self.baseline, x) /\ VHigh(r) = y[1][2]
                /\ y = <<>> => VLow(r) = 0 /\ VHigh(r) = 0
                /\ self'.subiter_info = None \/ self'.subiter_info[1][1] = x]_vars

C15_Witness ==
  /\ tag = "Vertical" /\ last.advanced = 1 /\ Len(out) >= 3
  /\ VCat(out[Len(out) - 1]) /= VCat(out[Len(out)])
  /\ Len(buffer[VCat(out[Len(out) - 1])]) > 1
  /\ buffer[VCat(out[Len(out)])] = <<>>

\* Stacking with a remaining item
StackPending ==
  self.subiter_info /= None /\ self.subiter /= None /\ self.subiter[1] /= <<>>

\* C16: vertical mode: a pull that emits a segment of the pending stack
\* takes exactly one item off that stack, leaves the category source where
\* it is, does not call the baseline closure and leaves margin, style and
\* baseline as they are; no pull takes more than one category from the
\* source.
C16_StackingPullFrame ==
  [][VerticalNext =>
       /\ StackPending =>
            /\ last'.item /= None
            /\ self'.subiter = <<Tail(self.subiter[1])>>
            /\ self'.iter = self.iter /\ last'.advanced = 0
            /\ last'.baseline_calls = <<>> /\ baseLog' = baseLog
            /\ self'.margin = self.margin /\ self'.style = self.style
            /\ self'.baseline = self.baseline
       /\ self'.iter = self.iter \/ (self.iter /= <<>> /\ self'.iter = Tail(self.iter))]_vars

C16_Witness ==
  /\ tag = "Vertical" /\ last.item /= None /\ last.advanced = 0
  /\ Len(out) >= 2 /\ self.iter /= <<>> /\ self.baseline.kind = "func"
  /\ self.subiter = <<<<>>>>

\* the rectangles returned so far that are not placeholders
Bars == SelectSeq(out, IsBar)
\* how many of the first i bars belong to the category of the i-th
RankInCategory(i) == Cardinality({j \in 1..i : VCat(Bars[j]) = VCat(Bars[i])})
\* how often x occurs in the sequence s
Occurrences(s, x) == Cardinality({i \in DOMAIN s : s[i] = x})

\* C17: vertical mode: the style closure is called once for every segment
\* that is not a placeholder, with the segment's category and the identity
\* and own amount of its item, and never for a placeholder; the baseline
\* closure is called once for every category with a non-empty list, with the
\* category itself, and never for an empty category.
C17_PolicyEvaluations ==
  tag = "Vertical" =>
    /\ Len(styleLog) = Len(Bars)
    /\ \A i \in DOMAIN styleLog :
         LET x == VCat(Bars[i])
             item == buffer[x][RankInCategory(i)]
         IN  styleLog[i] = <<x, item[1], item[2]>>
    /\ \A x \in DOMAIN buffer :
         Occurrences(baseLog, x) = IF buffer[x] /= <<>> /\ RectsOf(x) /= <<>> THEN 1 ELSE 0
    /\ \A i \in DOMAIN baseLog : baseLog[i] \in DOMAIN buffer
    /\ SignalledEnd =>
         \A x \in DOMAIN buffer : Occurrences(baseLog, x) = IF buffer[x] /= <<>> THEN 1 ELSE 0

C17_Witness ==
  /\ tag = "Vertical" /\ SignalledEnd /\ Len(out) = 3 /\ Len(styleLog) = 2
  /\ self.style.kind = "func" /\ self.baseline.kind = "func"
  /\ baseLog = <<VCat(Bars[1])>>

\* C18: a series from the `horizontal` constructor carries the Horizontal
\* tag and is pulled by the horizontal rules (at most one rectangle per
\* category, the margin on top and bottom); a series from `new` or
\* `vertical` carries the Vertical tag.
C18_OrientationByConstructor ==
  /\ ctor \in {"new", "vertical"} => tag = "Vertical"
  /\ ctor = "horizontal" =>
       /\ tag = "Horizontal"
       /\ \A i \in DOMAIN out : out[i].margin = <<self.margin, self.margin, 0, 0>>
       /\ \A y \in DOMAIN buffer : Len(HRectsOf(y)) <= 1

\* C19: after data(new_items), called after pulling has begun (also in the
\* middle of a stack), every rectangle returned from then on is of a category
\* of new_items, and every item styled from then on is an item of new_items.
C19_DataReplacesCompletely ==
  replacedAt # None =>
    /\ \A i \in (replacedAt[1][1] + 1)..Len(out) :
         (IF tag = "Vertical" THEN VCat(out[i]) ELSE HCat(out[i])) \in DOMAIN buffer
    /\ \A i \in (replacedAt[1][2] + 1)..Len(styleLog) :
         /\ styleLog[i][1] \in DOMAIN buffer
         /\ \E k \in DOMAIN buffer[styleLog[i][1]] :
              buffer[styleLog[i][1]][k] = <<styleLog[i][2], styleLog[i][3]>>

\* the pending-stack info comes with the remaining items of its own category,
\* which is the category of the rectangle returned last
InfoHasItsIterator ==
  (tag = "Vertical" /\ self.subiter_info /= None) =>
    LET x == self.subiter_info[1][1]
    IN  /\ self.subiter /= None
        /\ out /= <<>> /\ VCat(out[Len(out)]) = x
        /\ self.subiter[1] = SubSeq(buffer[x], Len(RectsOf(x)) + 1, Len(buffer[x]))

\* no info at construction, after a placeholder, after the only segment of a
\* one-item category
InfoAbsentBetweenCategories ==
  tag = "Vertical" =>
    /\ ~pulled => self.subiter_info = None
    /\ (last.item /= None /\ last.style_calls = <<>>) => self.subiter_info = None
    /\ (StartedCategory /\ Len(buffer[VCat(last.item[1])]) = 1) => self.subiter_info = None

\* an iterator without info is an exhausted one, and a pull skips it
StaleIteratorNotRead ==
  VerticalNext =>
    (self.subiter_info = None =>
       /\ self.subiter \in {None, Some(<<>>)}
       /\ self'.subiter /= self.subiter =>
            (self.iter /= <<>> /\ self'.subiter = Some(Tail(Head(self.iter)[2]))))

====
